---- MODULE Spec2Model ----
(***************************************************************************)
(* Model of the retrieval-augmented extraction core of Legal_Advisor:      *)
(* the confidence scorer and the self-correction loop                      *)
(* (backend/core/self_correction.py), the extraction engine                *)
(* (backend/core/rag_pipeline.py) and the rule engine                      *)
(* (backend/core/rule_checker.py).                                         *)
(*                                                                         *)
(* Scores are Python floats in the code.  Here every score is an integer   *)
(* number of HUNDREDTHS of a point (70.0 is 7000), which is exact for every*)
(* value the scorer can produce; the float comparisons of the code agree   *)
(* with the exact ones on all of those values.                             *)
(***************************************************************************)
EXTENDS Integers, Sequences, FiniteSets, TLC

(***************************************************************************)
(* Bounds of the model.                                                    *)
(***************************************************************************)
\* longest list held by a required field of an extraction
MaxItems == 5
\* largest number of source references of an initial extraction
MaxSources == 6
\* largest iteration budget (max_iterations ranges over 0..MaxIterations)
MaxIterations == 2
\* largest number of chunks one search returns
MaxChunks == 6
\* largest number of chunks a search returns during extract_all_categories
MaxAllDocs == 1
\* largest number of chunks given to build_index
MaxBuildChunks == 1
\* largest number of categories given to validate_all_categories
MaxBatch == 2
\* largest iteration budget of an agent running validate_all_categories
MaxBatchIterations == 1
\* the largest configured retrieval width
MaxConfiguredK == 11
\* largest number of indexes built by the API's requests
MaxBuilds == 3

(***************************************************************************)
(* Program constants.                                                      *)
(***************************************************************************)
\* Field(..., ge=0, le=100) of ConfidenceScore and RuleResult, in points
MaxScore == 100
\* Settings.min_confidence_threshold = 0.7, as a percentage
DefaultMinConfidence == 70
\* Settings.retrieval_top_k
retrieval_top_k == 5
\* min(original_k + 3, 10) of _apply_correction
WidenStep == 3
MaxWidth == 10
\* self.vector_store.search(query, k=3) of _check_rule
RuleTopK == 3

Min(a, b) == IF a < b THEN a ELSE b

\* x points as hundredths of a point
Pts(x) == x * 100

(***************************************************************************)
(* The category catalog and the required field of each category.           *)
(***************************************************************************)
CATEGORIES ==
    << "definitions", "eligibility", "payments",
       "penalties", "obligations", "record_keeping" >>

CatalogSet == { CATEGORIES[i] : i \in 1..Len(CATEGORIES) }

\* a category name outside the catalog
InvalidCategory == "unknown"

AllCategories == CatalogSet \cup {InvalidCategory}

\* a slip in the table: the field of `payments` named after the category
ExpectedFieldMisnamed(category) ==
    CASE category = "definitions"    -> "terms"
      [] category = "eligibility"    -> "criteria"
      [] category = "payments"       -> "payments"
      [] category = "penalties"      -> "penalties"
      [] category = "obligations"    -> "obligations"
      [] category = "record_keeping" -> "requirements"
      [] OTHER                       -> ""

\* expected_fields.get(category, []): the one required field, "" for none
ExpectedField(category) ==
    CASE category = "definitions"    -> "terms"
      [] category = "eligibility"    -> "criteria"
      [] category = "payments"       -> "payment_types"
      [] category = "penalties"      -> "penalties"
      [] category = "obligations"    -> "obligations"
      [] category = "record_keeping" -> "requirements"
      [] OTHER                       -> ""

\* the strings a reply can use as a key: the six required fields and one
\* optional field of the eligibility schema
Keys ==
    { "terms", "criteria", "payment_types", "penalties",
      "obligations", "requirements", "exclusions" }

(***************************************************************************)
(* A JSON value as the scorer sees it.                                     *)
(*   shape  : the top-level JSON type                                      *)
(*   truthy : Python truthiness of the value                               *)
(*   key    : the one string the value mentions ("none" for none): the key *)
(*            of an object, the element of an array, the text of a string  *)
(*   list, n: the value under the key of an object: a list of n items, or  *)
(*            (list = FALSE) a non-list value that is truthy iff n = 1     *)
(***************************************************************************)
Shapes == { "object", "array", "string", "number", "boolean", "null" }

JsonValue(shape, truthy, key, list, n) ==
    [ shape |-> shape, truthy |-> truthy, key |-> key, list |-> list, n |-> n ]

\* {}
EmptyObject == JsonValue("object", FALSE, "none", FALSE, 0)

\* {key: [item, ...]} with n items
ListObject(key, n) == JsonValue("object", TRUE, key, TRUE, n)

\* {key: value} with a non-list value: n = 1 truthy ("text"), n = 0 falsy (null)
ScalarObject(key, n) == JsonValue("object", TRUE, key, FALSE, n)

ObjectsOver(keys) ==
    {EmptyObject}
      \cup { ListObject(k, n) : k \in keys, n \in 0..MaxItems }
      \cup { ScalarObject(k, n) : k \in keys, n \in 0..1 }

\* [], [k]; "", "k"; 0, 5; false, true; null
NonObjectsOver(keys) ==
    { JsonValue(s, FALSE, "none", FALSE, 0) : s \in Shapes \ {"object"} }
      \cup { JsonValue(s, TRUE, k, FALSE, 0) : s \in {"array", "string"}, k \in keys }
      \cup { JsonValue(s, TRUE, "none", FALSE, 0) : s \in {"number", "boolean"} }

DataOver(keys) == ObjectsOver(keys) \cup NonObjectsOver(keys)

DataValues == DataOver(Keys)

\* an extraction result: {"category", "data", "sources", "message"}; of the
\* sources only their number matters to the scorer
Extraction(data, sources, message) ==
    [ data |-> data, sources |-> sources, message |-> message ]

(***************************************************************************)
(* SelfCorrectionAgent._assess_completeness                                *)
(***************************************************************************)
\* `field in data` raises TypeError on a number or a boolean; data[field]
\* raises TypeError on an array or a string that holds the field's name
AssessRaises(category, data) ==
    /\ data.truthy
    /\ ExpectedField(category) # ""
    /\ \/ data.shape \in {"number", "boolean"}
       \/ /\ data.shape \in {"array", "string"}
          /\ data.key = ExpectedField(category)

\* field in data
FieldIn(category, data) == data.key = ExpectedField(category)

FieldScore(category, data) ==
    IF FieldIn(category, data) /\ data.n > 0 THEN 100 ELSE 0

\* the richness without its cap at 100
RichnessScoreUncapped(category, data) ==
    IF FieldIn(category, data) /\ data.list THEN data.n * 25 ELSE 0

RichnessScore(category, data) ==
    IF FieldIn(category, data) /\ data.list THEN Min(100, data.n * 25) ELSE 0

\* the completeness of `data`, in hundredths, where the call does not raise
AssessCompleteness(category, data) ==
    IF ~data.truthy THEN 0
    ELSE IF ExpectedField(category) = "" THEN Pts(50)
    ELSE 60 * FieldScore(category, data) + 40 * RichnessScore(category, data)

(***************************************************************************)
(* SelfCorrectionAgent._calculate_confidence                               *)
(***************************************************************************)
\* the evidence quality without its cap at 100
EvidenceQualityUncapped(sources) == sources * Pts(20)

\* min(100.0, len(sources) * 20.0) if sources else 0.0
EvidenceQuality(sources) ==
    IF sources > 0 THEN Min(Pts(100), sources * Pts(20)) ELSE 0

\* completeness * 0.7 + evidence_quality * 0.3
Overall(completeness, evidence_quality) ==
    (70 * completeness + 30 * evidence_quality) \div 100

\* the flag with `<=` for the `<` of the threshold test
NeedsCorrectionNonStrict(overall, completeness, evidence_quality, min_confidence) ==
    \/ overall <= min_confidence * 100
    \/ completeness < Pts(50)
    \/ evidence_quality < Pts(30)

\* the flag without its completeness test
NeedsCorrectionNoCompleteness(overall, completeness, evidence_quality, min_confidence) ==
    \/ overall < min_confidence * 100
    \/ evidence_quality < Pts(30)

\* the flag without its evidence test
NeedsCorrectionNoEvidence(overall, completeness, evidence_quality, min_confidence) ==
    \/ overall < min_confidence * 100
    \/ completeness < Pts(50)

NeedsCorrection(overall, completeness, evidence_quality, min_confidence) ==
    \/ overall < min_confidence * 100
    \/ completeness < Pts(50)
    \/ evidence_quality < Pts(30)

ScoreRecord(kind, overall, completeness, evidence_quality, needs_correction) ==
    [ kind |-> kind, overall |-> overall, completeness |-> completeness,
      evidence_quality |-> evidence_quality,
      needs_correction |-> needs_correction ]

NoScore == ScoreRecord("none", 0, 0, 0, FALSE)
TypeErrorScore == ScoreRecord("TypeError", 0, 0, 0, FALSE)
ValidationErrorScore == ScoreRecord("ValidationError", 0, 0, 0, FALSE)

InRange(x) == 0 <= x /\ x <= Pts(MaxScore)

\* ConfidenceScore(...): pydantic rejects a field outside [0, 100]
ConfidenceScore(overall, completeness, evidence_quality, needs_correction) ==
    IF InRange(overall) /\ InRange(completeness) /\ InRange(evidence_quality)
    THEN ScoreRecord("score", overall, completeness, evidence_quality,
                     needs_correction)
    ELSE ValidationErrorScore

\* lines 131-149: the score built from a completeness and a source count
ScoreFrom(completeness, sources, min_confidence) ==
    LET evidence_quality == EvidenceQuality(sources)
        overall == Overall(completeness, evidence_quality)
    IN  ConfidenceScore(overall, completeness, evidence_quality,
            NeedsCorrection(overall, completeness, evidence_quality,
                            min_confidence))

CalculateConfidence(category, extraction, min_confidence) ==
    IF AssessRaises(category, extraction.data) THEN TypeErrorScore
    ELSE ScoreFrom(AssessCompleteness(category, extraction.data),
                   extraction.sources, min_confidence)

(***************************************************************************)
(* RAGPipeline: the language model's reply, its parsing, one extraction.   *)
(***************************************************************************)
\* what one call of the language model does: it raises (API failure,
\* timeout), or replies a text that is not JSON, or replies a JSON value
LLMReply(kind, value) == [ kind |-> kind, value |-> value ]

RepliesOver(keys) ==
    { LLMReply("raise", EmptyObject), LLMReply("nonjson", EmptyObject) }
      \cup { LLMReply("json", v) : v \in DataOver(keys) }

\* _parse_llm_response: json.loads of the cleaned reply, {} on JSONDecodeError
ParseLLMResponse(reply) ==
    IF reply.kind = "json" THEN reply.value ELSE EmptyObject

MsgSuccess == "Successfully extracted"
MsgNoInfo == "No relevant information found"
MsgFailed == "Extraction failed"
MsgMaxIterations == "Max iterations reached without full validation"

ExtractionMessages == { MsgSuccess, MsgNoInfo, MsgFailed }

NoExtraction == Extraction(EmptyObject, 0, "")

ExtractOutcome(kind, extraction, searched, llm_called) ==
    [ kind |-> kind, extraction |-> extraction,
      searched |-> searched, llm_called |-> llm_called ]

\* extract_category without its return on an empty search result
ExtractCategoryNoShortCut(category, is_built, docs, reply) ==
    IF category \notin CatalogSet
    THEN ExtractOutcome("ValueError", NoExtraction, FALSE, FALSE)
    ELSE IF ~is_built
    THEN ExtractOutcome("ValueError", NoExtraction, TRUE, FALSE)
    ELSE IF reply.kind = "raise"
    THEN ExtractOutcome("result", Extraction(EmptyObject, 0, MsgFailed),
                        TRUE, TRUE)
    ELSE ExtractOutcome("result",
             Extraction(ParseLLMResponse(reply), docs, MsgSuccess),
             TRUE, TRUE)

\* extract_category without its except clause
ExtractCategoryUncaught(category, is_built, docs, reply) ==
    IF category \notin CatalogSet
    THEN ExtractOutcome("ValueError", NoExtraction, FALSE, FALSE)
    ELSE IF ~is_built
    THEN ExtractOutcome("ValueError", NoExtraction, TRUE, FALSE)
    ELSE IF docs = 0
    THEN ExtractOutcome("result", Extraction(EmptyObject, 0, MsgNoInfo),
                        TRUE, FALSE)
    ELSE IF reply.kind = "raise"
    THEN ExtractOutcome("Exception", NoExtraction, TRUE, TRUE)
    ELSE ExtractOutcome("result",
             Extraction(ParseLLMResponse(reply), docs, MsgSuccess),
             TRUE, TRUE)

\* extract_category on an index that is built or not, where the search
\* returns `docs` chunks and the language model does `reply`
ExtractCategory(category, is_built, docs, reply) ==
    IF category \notin CatalogSet
    THEN ExtractOutcome("ValueError", NoExtraction, FALSE, FALSE)
    ELSE IF ~is_built
    THEN ExtractOutcome("ValueError", NoExtraction, TRUE, FALSE)
    ELSE IF docs = 0
    THEN ExtractOutcome("result", Extraction(EmptyObject, 0, MsgNoInfo),
                        TRUE, FALSE)
    ELSE IF reply.kind = "raise"
    THEN ExtractOutcome("result", Extraction(EmptyObject, 0, MsgFailed),
                        TRUE, TRUE)
    ELSE ExtractOutcome("result",
             Extraction(ParseLLMResponse(reply), docs, MsgSuccess),
             TRUE, TRUE)

(***************************************************************************)
(* RuleChecker: the rule catalog, one validation, one rule check.          *)
(***************************************************************************)
RULES ==
    << "Key Terms Defined", "Eligibility Criteria Present",
       "Authority Responsibilities Specified", "Penalties/Enforcement Exist",
       "Payment/Entitlement Structure", "Reporting/Record-keeping" >>

\* the value of one key of a JSON object: absent, a string, a number (in
\* hundredths of a point), a string that spells a number, or null
Absent == [ t |-> "absent", s |-> "", x |-> 0 ]
Str(text) == [ t |-> "str", s |-> text, x |-> 0 ]
Num(x) == [ t |-> "num", s |-> "", x |-> x ]
NumStr(x) == [ t |-> "numstr", s |-> "", x |-> x ]
Null == [ t |-> "null", s |-> "", x |-> 0 ]

\* what the language model does when asked to adjudicate a rule: it raises,
\* replies a text that is not JSON, replies a JSON value that is no object
\* (shape "other"), or replies a JSON object
RuleReply(kind, shape, status, evidence, conf) ==
    [ kind |-> kind, shape |-> shape, status |-> status,
      evidence |-> evidence, confidence |-> conf ]

RaiseReply == RuleReply("raise", "none", Absent, Absent, Absent)
NonJsonReply == RuleReply("nonjson", "none", Absent, Absent, Absent)
NonObjectReply == RuleReply("json", "other", Absent, Absent, Absent)
ObjectReply(status, evidence, conf) ==
    RuleReply("json", "object", status, evidence, conf)

EvNoContent == "No relevant content found"
EvNoEvidence == "No evidence provided"
EvValidationError == "Validation error"
\* a quote the language model gives as its evidence
EvQuote == "quote from the document"

\* the replies of the model: a well-formed pass and a well-formed fail at the
\* two ends of the confidence range, and replies that differ from one of
\* them in one field, which is missing, ill-typed or out of range
RuleReplies ==
    { RaiseReply, NonJsonReply, NonObjectReply,
      ObjectReply(Str("pass"), Str(EvQuote), Num(Pts(MaxScore))),
      ObjectReply(Str("fail"), Str(EvQuote), Num(0)),
      ObjectReply(Absent, Absent, Absent),
      ObjectReply(Absent, Str(EvQuote), Num(0)),
      ObjectReply(Str("maybe"), Str(EvQuote), Num(Pts(MaxScore))),
      ObjectReply(Null, Str(EvQuote), Num(Pts(MaxScore))),
      ObjectReply(Num(1), Str(EvQuote), Num(Pts(MaxScore))),
      ObjectReply(Str("fail"), Absent, Num(0)),
      ObjectReply(Str("pass"), Null, Num(Pts(MaxScore))),
      ObjectReply(Str("fail"), Str(EvQuote), Absent),
      ObjectReply(Str("pass"), Str(EvQuote), NumStr(Pts(MaxScore))),
      ObjectReply(Str("pass"), Str(EvQuote), Str("high")),
      ObjectReply(Str("pass"), Str(EvQuote), Null),
      ObjectReply(Str("pass"), Str(EvQuote), Num(Pts(MaxScore) + 100)),
      ObjectReply(Str("pass"), Str(EvQuote), Num(0 - 100)) }

\* the dictionary _validate_with_llm returns
Validation(status, evidence, conf) ==
    [ status |-> status, evidence |-> evidence, confidence |-> conf ]

\* the except branch of _validate_with_llm
ValidationFailed == Validation(Str("fail"), Str(EvValidationError), 0)

\* result.get(key, default)
Get(value, default) == IF value.t = "absent" THEN default ELSE value

\* float(x) raises on None and on a string that spells no number
FloatRaises(value) == value.t \in {"null", "str"}

\* _validate_with_llm: every exception of the call, of the parsing, of
\* result.get on a value that is no object, and of float() is caught
ValidateWithLLM(reply) ==
    IF reply.kind = "raise" THEN ValidationFailed
    ELSE IF reply.kind = "json" /\ reply.shape # "object" THEN ValidationFailed
    ELSE LET status == IF reply.kind = "json" THEN reply.status ELSE Absent
             evidence == IF reply.kind = "json" THEN reply.evidence ELSE Absent
             conf == IF reply.kind = "json" THEN reply.confidence ELSE Absent
         IN  IF FloatRaises(Get(conf, Num(0))) THEN ValidationFailed
             ELSE Validation(Get(status, Str("fail")),
                             Get(evidence, Str(EvNoEvidence)),
                             Get(conf, Num(0)).x)

RuleResult(rule, status, evidence, conf) ==
    [ rule |-> rule, status |-> status, evidence |-> evidence,
      confidence |-> conf ]

NoRuleResult == RuleResult("", "", "", 0)

\* RuleResult(...): pydantic wants strings for status and evidence and a
\* confidence in [0, 100]
RuleResultValid(validation) ==
    /\ validation.status.t = "str"
    /\ validation.evidence.t = "str"
    /\ InRange(validation.confidence)

\* what one _check_rule did: no_hits is its test `if not results`, reply the
\* kind of reply the language model gave it ("none" when it was not called)
RuleOutcome(kind, res, no_hits, llm_called, reply) ==
    [ kind |-> kind, result |-> res, no_hits |-> no_hits,
      llm_called |-> llm_called, reply |-> reply ]

\* _check_rule without its short cut on an empty search result
CheckRuleNoShortCut(rule, is_built, hits, reply) ==
    IF ~is_built
    THEN RuleOutcome("ValueError", NoRuleResult, FALSE, FALSE, "none")
    ELSE LET validation == ValidateWithLLM(reply)
         IN  IF RuleResultValid(validation)
             THEN RuleOutcome("result",
                      RuleResult(rule, validation.status.s,
                                 validation.evidence.s, validation.confidence),
                      hits = 0, TRUE, reply.kind)
             ELSE RuleOutcome("ValidationError", NoRuleResult,
                              hits = 0, TRUE, reply.kind)

\* _check_rule on an index that is built or not, where the search returns
\* `hits` chunks and the language model does `reply`
CheckRule(rule, is_built, hits, reply) ==
    IF ~is_built
    THEN RuleOutcome("ValueError", NoRuleResult, FALSE, FALSE, "none")
    ELSE IF hits = 0
    THEN RuleOutcome("result", RuleResult(rule, "fail", EvNoContent, 0),
                     TRUE, FALSE, "none")
    ELSE LET validation == ValidateWithLLM(reply)
         IN  IF RuleResultValid(validation)
             THEN RuleOutcome("result",
                      RuleResult(rule, validation.status.s,
                                 validation.evidence.s, validation.confidence),
                      FALSE, TRUE, reply.kind)
             ELSE RuleOutcome("ValidationError", NoRuleResult,
                              FALSE, TRUE, reply.kind)

CheckRuleOutcomes(rule, is_built) ==
    { CheckRule(rule, is_built, hits, reply) :
        hits \in 0..RuleTopK, reply \in RuleReplies }

(***************************************************************************)
(* State.                                                                  *)
(***************************************************************************)
VARIABLES
    \* ---- SelfCorrectionAgent.validate_and_correct -----------------------
    category,            \* the category argument
    max_iterations,      \* self.max_iterations
    min_confidence,      \* self.min_confidence, as a percentage
    built,               \* the vector store holds an index
    retrieval_k,         \* self.rag_pipeline.retrieval_k
    pc,                  \* "scoring", "correcting", "returned", "raised"
    iteration,           \* the local `iteration`
    current_extraction,  \* the local `current_extraction`
    confidence,          \* the local `confidence` of the last scoring
    result,              \* the returned dictionary
    error,               \* the exception that left the call, "" for none
    scoring_calls,       \* calls of _calculate_confidence
    corrections,         \* calls of _apply_correction
    searches,            \* calls of the vector store's search
    llm_calls,           \* calls of the language model
    search_k,            \* the k of the last search_by_category, 0 for none
    \* ---- the scorer applied to one extraction ---------------------------
    sc_category, sc_extraction, sc_min_confidence, sc_confidence,
    \* ---- lines 131-149 of the scorer applied to a given completeness ----
    bl_completeness, bl_sources, bl_min_confidence, bl_confidence,
    \* ---- RuleChecker.check_all_rules ------------------------------------
    rule_built,          \* the vector store holds an index
    rule_pc,             \* "checking", "returned", "raised"
    rule_results,        \* the local list `results`
    rule_last,           \* the last _check_rule: no hits? which LLM reply?
    rule_error,          \* the exception that left the call, "" for none
    \* ---- get_compliance_summary and build_final_report ------------------
    sum_results,         \* the rule_results argument of both
    sum_summary,         \* the dictionary get_compliance_summary returns
    sum_report,          \* report["rule_checks"]["summary"] of the report
    \* ---- RAGPipeline.extract_category -----------------------------------
    ex_category,         \* the category argument
    ex_built,            \* the vector store holds an index
    ex_retrieval_k,      \* self.retrieval_k
    ex_docs,             \* the number of chunks the search returned
    ex_reply,            \* what the language model did
    ex_outcome,          \* the returned dictionary, or the exception
    \* ---- RAGPipeline.extract_all_categories -----------------------------
    all_built,           \* the vector store holds an index
    all_pc,              \* "extracting", "returned", "raised"
    all_inputs,          \* per category so far: chunks found, model's reply
    all_results,         \* the local `results`, in insertion order
    \* ---- VectorStoreManager ---------------------------------------------
    vs_index,            \* self.vector_store: the indexed document, or none
    vs_document_name,    \* self.document_name
    vs_disk,             \* the index directories on disk
    vs_last,             \* the last call: its arguments and its outcome
    \* ---- RAGPipeline._parse_llm_response --------------------------------
    ps_payload,          \* a text
    ps_response,         \* the text inside a markdown fence
    ps_plain,            \* the value returned for the text
    ps_fenced,           \* the value returned for the fenced text
    \* ---- SelfCorrectionAgent.validate_all_categories --------------------
    va_extractions,      \* the extractions argument, in insertion order
    va_pc,               \* "idle", "running", "returned", "raised"
    va_next,             \* position of the loop over extractions.items()
    va_validated,        \* the local `validated`, in insertion order
    \* ---- the API's document registry -----------------------------------
    api_vector_stores,   \* _vector_stores: name -> number of the build it
                         \* holds, 0 for no entry
    api_disk,            \* <name>_index in vector_store_dir: name -> number
                         \* of the build saved there, 0 for none
    api_builds,          \* indexes built so far; a build's number names it
    api_response         \* the last response: endpoint, name, status, and
                         \* the build the request worked on (0 for none)

loopVars ==
    << category, max_iterations, min_confidence, built, retrieval_k, pc,
       iteration, current_extraction, confidence, result, error,
       scoring_calls, corrections, searches, llm_calls, search_k >>

scorerVars == << sc_category, sc_extraction, sc_min_confidence, sc_confidence >>

blendVars == << bl_completeness, bl_sources, bl_min_confidence, bl_confidence >>

ruleVars == << rule_built, rule_pc, rule_results, rule_last, rule_error >>

summaryVars == << sum_results, sum_summary, sum_report >>

extractVars ==
    << ex_category, ex_built, ex_retrieval_k, ex_docs, ex_reply, ex_outcome >>

allVars == << all_built, all_pc, all_inputs, all_results >>

storeVars == << vs_index, vs_document_name, vs_disk, vs_last >>

parseVars == << ps_payload, ps_response, ps_plain, ps_fenced >>

batchVars == << va_extractions, va_pc, va_next, va_validated >>

apiVars == << api_vector_stores, api_disk, api_builds, api_response >>

\* the variables of the components added to the first four
laterVars ==
    << summaryVars, extractVars, allVars, storeVars, parseVars, apiVars >>

vars == << loopVars, scorerVars, blendVars, ruleVars, laterVars, batchVars >>

notLoopVars == << scorerVars, blendVars, ruleVars, laterVars, batchVars >>
notScorerVars == << loopVars, blendVars, ruleVars, laterVars, batchVars >>
notBlendVars == << loopVars, scorerVars, ruleVars, laterVars, batchVars >>
notRuleVars == << loopVars, scorerVars, blendVars, laterVars, batchVars >>
firstVars == << loopVars, scorerVars, blendVars, ruleVars, batchVars >>
notSummaryVars ==
    << firstVars, extractVars, allVars, storeVars, parseVars, apiVars >>
notExtractVars ==
    << firstVars, summaryVars, allVars, storeVars, parseVars, apiVars >>
notAllVars ==
    << firstVars, summaryVars, extractVars, storeVars, parseVars, apiVars >>
notStoreVars ==
    << firstVars, summaryVars, extractVars, allVars, parseVars, apiVars >>
notParseVars ==
    << firstVars, summaryVars, extractVars, allVars, storeVars, apiVars >>
notApiVars ==
    << firstVars, summaryVars, extractVars, allVars, storeVars, parseVars >>
\* the batch call runs validate_and_correct, so it shares the loop's state
notBatchVars == << scorerVars, blendVars, ruleVars, laterVars >>

\* the thresholds a deployment configures (MIN_CONFIDENCE_THRESHOLD), as
\* percentages
MinConfidences == { 0, 50, 60, DefaultMinConfidence, 100 }

(***************************************************************************)
(* The scorer as a pure function of an extraction result.                  *)
(***************************************************************************)
ScorerIdle ==
    /\ sc_category = InvalidCategory
    /\ sc_extraction = NoExtraction
    /\ sc_min_confidence = DefaultMinConfidence
    /\ sc_confidence = NoScore

ScorerInit ==
    /\ sc_category \in AllCategories
    /\ sc_extraction \in
         { Extraction(d, n, MsgSuccess) : d \in DataValues, n \in 0..MaxSources }
    /\ sc_min_confidence \in MinConfidences
    /\ sc_confidence = NoScore

\* confidence = self._calculate_confidence(category, extraction)
ScoreExtraction ==
    /\ sc_confidence.kind = "none"
    /\ sc_confidence' =
         CalculateConfidence(sc_category, sc_extraction, sc_min_confidence)
    /\ UNCHANGED << sc_category, sc_extraction, sc_min_confidence >>
    /\ UNCHANGED notScorerVars

(***************************************************************************)
(* Lines 131-149 of the scorer on a completeness given in whole points.    *)
(***************************************************************************)
BlendIdle ==
    /\ bl_completeness = 0
    /\ bl_sources = 0
    /\ bl_min_confidence = DefaultMinConfidence
    /\ bl_confidence = NoScore

BlendInit ==
    /\ bl_completeness \in { Pts(p) : p \in 0..MaxScore }
    /\ bl_sources \in 0..MaxSources
    /\ bl_min_confidence \in MinConfidences
    /\ bl_confidence = NoScore

ScoreGiven ==
    /\ bl_confidence.kind = "none"
    /\ bl_confidence' = ScoreFrom(bl_completeness, bl_sources, bl_min_confidence)
    /\ UNCHANGED << bl_completeness, bl_sources, bl_min_confidence >>
    /\ UNCHANGED notBlendVars

(***************************************************************************)
(* SelfCorrectionAgent.validate_and_correct                                *)
(***************************************************************************)
ResultRecord(extraction, conf, iterations, validated, message) ==
    [ data |-> extraction.data, sources |-> extraction.sources,
      message |-> message, confidence |-> conf,
      iterations |-> iterations, validated |-> validated ]

NoResult == ResultRecord(NoExtraction, NoScore, 0, FALSE, "")

\* the keys the replies of the loop's re-extractions use: the category's
\* required field and one other key (any key that is not the required field
\* of the category scores like "exclusions")
ReplyKeys(cat) ==
    IF cat \in CatalogSet THEN { ExpectedField(cat), "exclusions" }
    ELSE { "terms", "exclusions" }

\* the initial_extraction arguments: any data with any number of sources,
\* and the two results extract_category gives without data
InitialExtractions(cat) ==
    { Extraction(d, n, MsgSuccess) :
        d \in DataOver(ReplyKeys(cat)), n \in 0..MaxSources }
      \cup { Extraction(EmptyObject, 0, m) : m \in ExtractionMessages }

LoopIdle ==
    /\ category = InvalidCategory
    /\ max_iterations = 0
    /\ min_confidence = DefaultMinConfidence
    /\ built = FALSE
    /\ retrieval_k = retrieval_top_k
    /\ pc = "idle"
    /\ iteration = 0
    /\ current_extraction = NoExtraction
    /\ confidence = NoScore
    /\ result = NoResult
    /\ error = ""
    /\ scoring_calls = 0
    /\ corrections = 0
    /\ searches = 0
    /\ llm_calls = 0
    /\ search_k = 0

\* the agent is constructed and validate_and_correct(category,
\* initial_extraction) has run lines 47-50
LoopInit ==
    /\ category \in AllCategories
    /\ max_iterations \in 0..MaxIterations
    /\ min_confidence = DefaultMinConfidence
    /\ built \in BOOLEAN
    /\ retrieval_k = retrieval_top_k
    /\ pc = "scoring"
    /\ iteration = 0
    /\ current_extraction \in InitialExtractions(category)
    /\ confidence = NoScore
    /\ result = NoResult
    /\ error = ""
    /\ scoring_calls = 0
    /\ corrections = 0
    /\ searches = 0
    /\ llm_calls = 0
    /\ search_k = 0

\* the same with a budget of one correction and the retrieval width a
\* deployment configures (RETRIEVAL_TOP_K has no upper limit)
CorrectionInit ==
    /\ category \in AllCategories
    /\ max_iterations = 1
    /\ min_confidence = DefaultMinConfidence
    /\ built \in BOOLEAN
    /\ retrieval_k \in 1..MaxConfiguredK
    /\ pc = "scoring"
    /\ iteration = 0
    /\ current_extraction \in InitialExtractions(category)
    /\ confidence = NoScore
    /\ result = NoResult
    /\ error = ""
    /\ scoring_calls = 0
    /\ corrections = 0
    /\ searches = 0
    /\ llm_calls = 0
    /\ search_k = 0

\* lines 52-70: the loop test, the scoring and the validated return
Score ==
    /\ pc = "scoring"
    /\ iteration < max_iterations
    /\ LET conf == CalculateConfidence(category, current_extraction,
                                       min_confidence)
       IN  /\ scoring_calls' = scoring_calls + 1
           /\ confidence' = conf
           /\ IF conf.kind # "score"
              THEN /\ pc' = "raised"
                   /\ error' = conf.kind
                   /\ result' = result
              ELSE IF ~conf.needs_correction
              THEN /\ pc' = "returned"
                   /\ result' = ResultRecord(current_extraction, conf,
                                    iteration + 1, TRUE,
                                    current_extraction.message)
                   /\ error' = error
              ELSE /\ pc' = "correcting"
                   /\ UNCHANGED << result, error >>
    /\ UNCHANGED << category, max_iterations, min_confidence, built,
                    retrieval_k, iteration, current_extraction,
                    corrections, searches, llm_calls, search_k >>
    /\ UNCHANGED notLoopVars

\* the widening without its cap
WidenedKUncapped(k) == k + WidenStep

\* the retrieval width of the low-completeness branch
WidenedK(k) == Min(k + WidenStep, MaxWidth)

\* which branch of _apply_correction a score takes
Strategy(conf) ==
    IF conf.completeness < Pts(30) THEN "widen"
    ELSE IF conf.evidence_quality < Pts(50) THEN "retry"
    ELSE "keep"

\* what extract_category(category) can do at retrieval width k: the search
\* returns 0..k chunks (no more than the index can give), then the language
\* model raises or replies
ReExtractions(cat, is_built, k) ==
    { ExtractCategory(cat, is_built, docs, reply) :
        docs \in 0..Min(k, MaxChunks), reply \in RepliesOver(ReplyKeys(cat)) }

\* lines 72-75 with _apply_correction: one correction attempt
ApplyCorrection ==
    /\ pc = "correcting"
    /\ corrections' = corrections + 1
    /\ LET strategy == Strategy(confidence)
           k == IF strategy = "widen" THEN WidenedK(retrieval_k)
                ELSE retrieval_k
       IN  IF strategy = "keep"
           THEN /\ pc' = "scoring"
                /\ iteration' = iteration + 1
                /\ UNCHANGED << current_extraction, retrieval_k, error,
                                searches, llm_calls, search_k >>
           ELSE \E out \in ReExtractions(category, built, k) :
                /\ searches' = searches + (IF out.searched THEN 1 ELSE 0)
                /\ llm_calls' = llm_calls + (IF out.llm_called THEN 1 ELSE 0)
                /\ search_k' = IF out.searched THEN k ELSE search_k
                /\ IF out.kind = "result"
                   THEN /\ current_extraction' = out.extraction
                        /\ retrieval_k' = retrieval_k
                        /\ iteration' = iteration + 1
                        /\ pc' = "scoring"
                        /\ error' = error
                   ELSE \* the exception leaves before the width is restored
                        /\ retrieval_k' = k
                        /\ pc' = "raised"
                        /\ error' = out.kind
                        /\ UNCHANGED << current_extraction, iteration >>
    /\ UNCHANGED << category, max_iterations, min_confidence, built,
                    confidence, result, scoring_calls >>
    /\ UNCHANGED notLoopVars

\* lines 77-87 with the score of the loop's last scoring in place of a new one
ExhaustedStaleScore ==
    /\ pc = "scoring"
    /\ iteration >= max_iterations
    /\ scoring_calls' = scoring_calls
    /\ confidence' = confidence
    /\ pc' = "returned"
    /\ result' = ResultRecord(current_extraction, confidence, iteration,
                              FALSE, MsgMaxIterations)
    /\ error' = error
    /\ UNCHANGED << category, max_iterations, min_confidence, built,
                    retrieval_k, iteration, current_extraction,
                    corrections, searches, llm_calls, search_k >>
    /\ UNCHANGED notLoopVars

\* lines 77-87: the budget is spent
Exhausted ==
    /\ pc = "scoring"
    /\ iteration >= max_iterations
    /\ LET conf == CalculateConfidence(category, current_extraction,
                                       min_confidence)
       IN  /\ scoring_calls' = scoring_calls + 1
           /\ confidence' = conf
           /\ IF conf.kind # "score"
              THEN /\ pc' = "raised"
                   /\ error' = conf.kind
                   /\ result' = result
              ELSE /\ pc' = "returned"
                   /\ result' = ResultRecord(current_extraction, conf,
                                    iteration, FALSE,
                                    MsgMaxIterations)
                   /\ error' = error
    /\ UNCHANGED << category, max_iterations, min_confidence, built,
                    retrieval_k, iteration, current_extraction,
                    corrections, searches, llm_calls, search_k >>
    /\ UNCHANGED notLoopVars

LoopNext ==
    \/ Score
    \/ ApplyCorrection
    \/ Exhausted

(***************************************************************************)
(* RuleChecker.check_all_rules                                             *)
(***************************************************************************)
LastCall(no_hits, llm_called, reply) ==
    [ no_hits |-> no_hits, llm_called |-> llm_called, reply |-> reply ]

RuleIdle ==
    /\ rule_built = FALSE
    /\ rule_pc = "idle"
    /\ rule_results = << >>
    /\ rule_last = LastCall(FALSE, FALSE, "none")
    /\ rule_error = ""

\* check_all_rules has run lines 75-76
RuleInit ==
    /\ rule_built \in BOOLEAN
    /\ rule_pc = "checking"
    /\ rule_results = << >>
    /\ rule_last = LastCall(FALSE, FALSE, "none")
    /\ rule_error = ""

\* lines 78-80: one turn of the loop over RULES
CheckNextRule ==
    /\ rule_pc = "checking"
    /\ Len(rule_results) < Len(RULES)
    /\ \E out \in CheckRuleOutcomes(RULES[Len(rule_results) + 1], rule_built) :
          /\ rule_last' = LastCall(out.no_hits, out.llm_called, out.reply)
          /\ IF out.kind = "result"
             THEN /\ rule_results' = Append(rule_results, out.result)
                  /\ UNCHANGED << rule_pc, rule_error >>
             ELSE /\ rule_pc' = "raised"
                  /\ rule_error' = out.kind
                  /\ UNCHANGED rule_results
    /\ UNCHANGED rule_built
    /\ UNCHANGED notRuleVars

\* line 82: return results
ReturnResults ==
    /\ rule_pc = "checking"
    /\ Len(rule_results) = Len(RULES)
    /\ rule_pc' = "returned"
    /\ UNCHANGED << rule_built, rule_results, rule_last, rule_error >>
    /\ UNCHANGED notRuleVars

RuleNext == CheckNextRule \/ ReturnResults

(***************************************************************************)
(* RuleChecker.get_compliance_summary and the rule summary of              *)
(* JSONBuilder.build_final_report.  A quotient of the code (passed / total *)
(* * 100, sum / total) is kept as its numerator and its denominator.       *)
(***************************************************************************)
Ratio(num, den) == [ num |-> num, den |-> den ]

\* sum(1 for r in rule_results if r.status == "pass")
RECURSIVE PassedRules(_)
PassedRules(results) ==
    IF results = << >> THEN 0
    ELSE (IF Head(results).status = "pass" THEN 1 ELSE 0)
           + PassedRules(Tail(results))

\* sum(r.confidence for r in rule_results)
RECURSIVE SumConfidence(_)
SumConfidence(results) ==
    IF results = << >> THEN 0
    ELSE Head(results).confidence + SumConfidence(Tail(results))

\* (passed / total * 100) if total > 0 else 0.0
PassRate(passed, total) ==
    IF total > 0 THEN Ratio(passed * 100, total) ELSE Ratio(0, 1)

\* the status with `>` for the `>=` of the test
ComplianceStatusAbove(passed_rules) ==
    IF passed_rules > 4 THEN "compliant" ELSE "non-compliant"

\* rule_checker.py: "compliant" if passed_rules >= 4 else "non-compliant"
OverallStatus(passed_rules) ==
    IF passed_rules >= 4 THEN "compliant" ELSE "non-compliant"

\* json_builder.py: "compliant" if passed_rules >= 4 else "non-compliant"
ComplianceStatus(passed_rules) ==
    IF passed_rules >= 4 THEN "compliant" ELSE "non-compliant"

SummaryRecord(kind, total, passed, failed, pass_rate, average, status) ==
    [ kind |-> kind, total_rules |-> total, passed |-> passed,
      failed |-> failed, pass_rate |-> pass_rate,
      average_confidence |-> average, status |-> status ]

NoSummary == SummaryRecord("none", 0, 0, 0, Ratio(0, 1), Ratio(0, 1), "")

\* the dictionary of get_compliance_summary; status is its "overall_status"
ComplianceSummary(results) ==
    LET total_rules == Len(results)
        passed_rules == PassedRules(results)
    IN  SummaryRecord("summary", total_rules, passed_rules,
            total_rules - passed_rules,
            PassRate(passed_rules, total_rules),
            IF total_rules > 0
            THEN Ratio(SumConfidence(results), total_rules) ELSE Ratio(0, 1),
            OverallStatus(passed_rules))

\* report["rule_checks"]["summary"]; status is its "compliance_status", and
\* it holds no average confidence
ReportSummary(results) ==
    LET total_rules == Len(results)
        passed_rules == PassedRules(results)
    IN  SummaryRecord("report", total_rules, passed_rules,
            total_rules - passed_rules,
            PassRate(passed_rules, total_rules),
            Ratio(0, 1),
            ComplianceStatus(passed_rules))

\* the results of the six rules, each passed with full confidence or failed
\* with none
OutcomeLists ==
    { [ i \in 1..Len(RULES) |->
          RuleResult(RULES[i], st[i], EvQuote,
                     IF st[i] = "pass" THEN Pts(MaxScore) ELSE 0) ] :
        st \in [ 1..Len(RULES) -> {"pass", "fail"} ] }

SummaryIdle ==
    /\ sum_results = << >>
    /\ sum_summary = NoSummary
    /\ sum_report = NoSummary

SummaryInit ==
    /\ sum_results \in OutcomeLists
    /\ sum_summary = NoSummary
    /\ sum_report = NoSummary

GetComplianceSummary ==
    /\ sum_results # << >>
    /\ sum_summary.kind = "none"
    /\ sum_summary' = ComplianceSummary(sum_results)
    /\ UNCHANGED << sum_results, sum_report >>
    /\ UNCHANGED notSummaryVars

BuildFinalReport ==
    /\ sum_results # << >>
    /\ sum_report.kind = "none"
    /\ sum_report' = ReportSummary(sum_results)
    /\ UNCHANGED << sum_results, sum_summary >>
    /\ UNCHANGED notSummaryVars

SummaryNext == GetComplianceSummary \/ BuildFinalReport

(***************************************************************************)
(* RAGPipeline.extract_category, one call.                                 *)
(***************************************************************************)
\* the language model was not called
NoReply == LLMReply("none", EmptyObject)

NoOutcome == ExtractOutcome("none", NoExtraction, FALSE, FALSE)

ExtractIdle ==
    /\ ex_category = InvalidCategory
    /\ ex_built = FALSE
    /\ ex_retrieval_k = retrieval_top_k
    /\ ex_docs = 0
    /\ ex_reply = NoReply
    /\ ex_outcome = NoOutcome

\* the pipeline is constructed, or is inside the widened re-extraction of
\* _apply_correction
ExtractInit ==
    /\ ex_category \in AllCategories
    /\ ex_built \in BOOLEAN
    /\ ex_retrieval_k \in { retrieval_top_k, WidenedK(retrieval_top_k) }
    /\ ex_docs = 0
    /\ ex_reply = NoReply
    /\ ex_outcome = NoOutcome

\* extract_category(category): the search returns 0..k chunks, the language
\* model raises or replies
Extract ==
    /\ ex_outcome.kind = "none"
    /\ \E docs \in 0..Min(ex_retrieval_k, MaxChunks),
          reply \in RepliesOver(ReplyKeys(ex_category)) :
          LET out == ExtractCategory(ex_category, ex_built, docs, reply)
          IN  /\ ex_outcome' = out
              /\ ex_docs' = IF out.kind = "result" THEN docs ELSE 0
              /\ ex_reply' = IF out.llm_called THEN reply ELSE NoReply
    /\ UNCHANGED << ex_category, ex_built, ex_retrieval_k >>
    /\ UNCHANGED notExtractVars

(***************************************************************************)
(* RAGPipeline.extract_all_categories                                      *)
(***************************************************************************)
\* what the language model does for one category of the whole run: it
\* raises, replies a text that is not JSON, or replies the category's list
AllReplies(cat) ==
    { LLMReply("raise", EmptyObject), LLMReply("nonjson", EmptyObject),
      LLMReply("json", ListObject(ExpectedField(cat), 2)) }

\* what one extract_category of the run was given
ExtractInput(docs, reply) == [ docs |-> docs, reply |-> reply ]

\* results[category] = ...
CategoryResult(cat, res) == [ category |-> cat, result |-> res ]

AllIdle ==
    /\ all_built = FALSE
    /\ all_pc = "idle"
    /\ all_inputs = << >>
    /\ all_results = << >>

\* extract_all_categories has run lines 122-123
AllInit ==
    /\ all_built \in BOOLEAN
    /\ all_pc = "extracting"
    /\ all_inputs = << >>
    /\ all_results = << >>

\* lines 125-126: one turn of the loop over CATEGORIES
ExtractNextCategory ==
    /\ all_pc = "extracting"
    /\ Len(all_results) < Len(CATEGORIES)
    /\ LET cat == CATEGORIES[Len(all_results) + 1]
       IN  \E docs \in 0..MaxAllDocs, reply \in AllReplies(cat) :
             LET out == ExtractCategory(cat, all_built, docs, reply)
             IN  IF out.kind = "result"
                 THEN /\ all_results' =
                           Append(all_results,
                                  CategoryResult(cat, out.extraction))
                      /\ all_inputs' =
                           Append(all_inputs,
                                  ExtractInput(docs,
                                      IF out.llm_called THEN reply
                                      ELSE NoReply))
                      /\ UNCHANGED all_pc
                 ELSE /\ all_pc' = "raised"
                      /\ UNCHANGED << all_inputs, all_results >>
    /\ UNCHANGED all_built
    /\ UNCHANGED notAllVars

\* line 128: return results
ReturnAll ==
    /\ all_pc = "extracting"
    /\ Len(all_results) = Len(CATEGORIES)
    /\ all_pc' = "returned"
    /\ UNCHANGED << all_built, all_inputs, all_results >>
    /\ UNCHANGED notAllVars

AllNext == ExtractNextCategory \/ ReturnAll

(***************************************************************************)
(* VectorStoreManager.  An index is known by the document it was built     *)
(* from and by its number of chunks; the disk holds index directories,     *)
(* each with or without its metadata file.                                 *)
(***************************************************************************)
\* the document names given to build_index
Docs == { "act_a", "act_b" }

\* self.document_name = None
NoName == "None"

Index(doc, size) == [ doc |-> doc, size |-> size ]

\* self.vector_store = None
NoIndex == Index("none", 0)

\* what one call did to the manager and what it returned
StoreOutcome(kind, index, document_name, value) ==
    [ kind |-> kind, index |-> index, document_name |-> document_name,
      value |-> value ]

\* build_index that drops the index it holds when given no chunks
BuildIndexClearing(index, name, chunks, document_name, embed_ok) ==
    IF chunks = 0 THEN StoreOutcome("ValueError", NoIndex, NoName, 0)
    ELSE IF ~embed_ok THEN StoreOutcome("Exception", index, name, 0)
    ELSE StoreOutcome("ok", Index(document_name, chunks), document_name,
                      chunks)

\* build_index(documents, document_name) on a manager that holds `index`
\* and `name`; FAISS.from_documents embeds every chunk and may raise
BuildIndex(index, name, chunks, document_name, embed_ok) ==
    IF chunks = 0 THEN StoreOutcome("ValueError", index, name, 0)
    ELSE IF ~embed_ok THEN StoreOutcome("Exception", index, name, 0)
    ELSE StoreOutcome("ok", Index(document_name, chunks), document_name,
                      chunks)

\* search(query, k): similarity_search_with_score gives at most k hits
SearchStore(index, k) ==
    IF index = NoIndex THEN StoreOutcome("ValueError", index, "", 0)
    ELSE StoreOutcome("ok", index, "", Min(k, index.size))

\* get_all_documents()
GetAllDocuments(index) ==
    IF index = NoIndex THEN StoreOutcome("ValueError", index, "", 0)
    ELSE StoreOutcome("ok", index, "", index.size)

\* an index directory: <path>_index with the saved index and, if `meta`,
\* the metadata file naming `document_name`
DiskEntry(path, index, meta, document_name) ==
    [ path |-> path, index |-> index, meta |-> meta,
      document_name |-> document_name ]

\* how far the writes of save_index get: nothing written, the index written
\* and the metadata not, or both written
Writes == { "none", "index", "all" }

\* the disk after save_index wrote `written` under the manager's name
DiskAfterSave(disk, index, name, written) ==
    IF written = "none" THEN disk
    ELSE { e \in disk : e.path # name }
           \cup { DiskEntry(name, index, written = "all", name) }

\* save_index(save_dir)
SaveIndex(index, name, written) ==
    IF index = NoIndex THEN StoreOutcome("ValueError", index, name, 0)
    ELSE IF written # "all" THEN StoreOutcome("Exception", index, name, 0)
    ELSE StoreOutcome("ok", index, name, 0)

\* load_index(index_path): FAISS.load_local may raise on a corrupt index
LoadIndex(index, name, disk, path, load_ok) ==
    IF \A e \in disk : e.path # path
    THEN StoreOutcome("FileNotFoundError", index, name, 0)
    ELSE IF ~load_ok THEN StoreOutcome("Exception", index, name, 0)
    ELSE LET e == CHOOSE e \in disk : e.path = path
         IN  StoreOutcome("ok", e.index,
                          IF e.meta THEN e.document_name ELSE name, 0)

\* the last call: had_index tells whether the manager held an index when
\* the call began, chunks is the number of chunks given to build_index
StoreCall(op, kind, had_index, chunks, value) ==
    [ op |-> op, kind |-> kind, had_index |-> had_index,
      chunks |-> chunks, value |-> value ]

NoCall == StoreCall("none", "ok", FALSE, 0, 0)

StoreIdle ==
    /\ vs_index = NoIndex
    /\ vs_document_name = NoName
    /\ vs_disk = {}
    /\ vs_last = NoCall

\* a manager as constructed; the disk is empty or holds an index saved by
\* an earlier process
StoreInit ==
    /\ vs_index = NoIndex
    /\ vs_document_name = NoName
    /\ vs_disk \in { {}, { DiskEntry("act_a", Index("act_a", 1), TRUE,
                                     "act_a") } }
    /\ vs_last = NoCall

StoreBuild ==
    /\ \E chunks \in 0..MaxBuildChunks, document_name \in Docs,
          embed_ok \in BOOLEAN :
          LET out == BuildIndex(vs_index, vs_document_name, chunks,
                                document_name, embed_ok)
          IN  /\ vs_index' = out.index
              /\ vs_document_name' = out.document_name
              /\ vs_last' = StoreCall("build", out.kind, vs_index # NoIndex,
                                      chunks, out.value)
    /\ UNCHANGED vs_disk
    /\ UNCHANGED notStoreVars

StoreSave ==
    /\ \E written \in Writes :
          LET out == SaveIndex(vs_index, vs_document_name, written)
          IN  /\ vs_disk' =
                   IF vs_index = NoIndex THEN vs_disk
                   ELSE DiskAfterSave(vs_disk, vs_index, vs_document_name,
                                      written)
              /\ vs_last' = StoreCall("save", out.kind, vs_index # NoIndex,
                                      0, out.value)
    /\ UNCHANGED << vs_index, vs_document_name >>
    /\ UNCHANGED notStoreVars

StoreLoad ==
    /\ \E path \in Docs \cup {NoName}, load_ok \in BOOLEAN :
          LET out == LoadIndex(vs_index, vs_document_name, vs_disk, path,
                               load_ok)
          IN  /\ vs_index' = out.index
              /\ vs_document_name' = out.document_name
              /\ vs_last' = StoreCall("load", out.kind, vs_index # NoIndex,
                                      0, out.value)
    /\ UNCHANGED vs_disk
    /\ UNCHANGED notStoreVars

StoreSearch ==
    /\ \E k \in { RuleTopK, retrieval_top_k } :
          LET out == SearchStore(vs_index, k)
          IN  vs_last' = StoreCall("search", out.kind, vs_index # NoIndex,
                                   0, out.value)
    /\ UNCHANGED << vs_index, vs_document_name, vs_disk >>
    /\ UNCHANGED notStoreVars

StoreGetAll ==
    /\ LET out == GetAllDocuments(vs_index)
       IN  vs_last' = StoreCall("get_all", out.kind, vs_index # NoIndex,
                                0, out.value)
    /\ UNCHANGED << vs_index, vs_document_name, vs_disk >>
    /\ UNCHANGED notStoreVars

StoreNext ==
    \/ StoreBuild
    \/ StoreSave
    \/ StoreLoad
    \/ StoreSearch
    \/ StoreGetAll

(***************************************************************************)
(* RAGPipeline._parse_llm_response on texts.  A text is the sequence of    *)
(* its characters; the value of a JSON text is known by the text without   *)
(* its surrounding whitespace.  The backquote character is written ' in    *)
(* the texts below, since a TLA+ string cannot hold a backquote.           *)
(***************************************************************************)
Whitespace == { " ", "\n", "\t" }

\* str.lstrip()
RECURSIVE LStrip(_)
LStrip(text) ==
    IF text # << >> /\ Head(text) \in Whitespace THEN LStrip(Tail(text))
    ELSE text

\* str.rstrip()
RECURSIVE RStrip(_)
RStrip(text) ==
    IF text # << >> /\ text[Len(text)] \in Whitespace
    THEN RStrip(SubSeq(text, 1, Len(text) - 1))
    ELSE text

\* str.strip()
Strip(text) == RStrip(LStrip(text))

\* str.startswith(prefix)
StartsWith(text, prefix) ==
    /\ Len(text) >= Len(prefix)
    /\ SubSeq(text, 1, Len(prefix)) = prefix

\* str.endswith(suffix)
EndsWith(text, suffix) ==
    /\ Len(text) >= Len(suffix)
    /\ SubSeq(text, Len(text) - Len(suffix) + 1, Len(text)) = suffix

\* text[n:]
DropFirst(text, n) == SubSeq(text, n + 1, Len(text))

\* text[:-n]
DropLast(text, n) == SubSeq(text, 1, Len(text) - n)

\* "```"
Fence == << "'", "'", "'" >>

\* "```json"
JsonFence == << "'", "'", "'", "j", "s", "o", "n" >>

\* the cleaning with its test for "```json" left out
CleanResponseBareOnly(response) ==
    LET stripped == Strip(response)
        opened == IF StartsWith(stripped, Fence)
                  THEN DropFirst(stripped, 3) ELSE stripped
        closed == IF EndsWith(opened, Fence)
                  THEN DropLast(opened, 3) ELSE opened
    IN  Strip(closed)

\* lines 308-315: the text handed to json.loads
CleanResponse(response) ==
    LET stripped == Strip(response)
        tagged == IF StartsWith(stripped, JsonFence)
                  THEN DropFirst(stripped, 7) ELSE stripped
        opened == IF StartsWith(tagged, Fence)
                  THEN DropFirst(tagged, 3) ELSE tagged
        closed == IF EndsWith(opened, Fence)
                  THEN DropLast(opened, 3) ELSE opened
    IN  Strip(closed)

\* JSON texts: {}  []  5  null  "json"  "```"  {"s":5}
JsonTexts ==
    { << "{", "}" >>,
      << "[", "]" >>,
      << "5" >>,
      << "n", "u", "l", "l" >>,
      << "\"", "j", "s", "o", "n", "\"" >>,
      << "\"", "'", "'", "'", "\"" >>,
      << "{", "\"", "s", "\"", ":", "5", "}" >> }

\* texts that are not JSON: the empty text, the word json, an open brace
NonJsonTexts ==
    { << >>, << "j", "s", "o", "n" >>, << "{" >> }

\* json.loads accepts a JSON text with whitespace around it
IsJson(text) == Strip(text) \in JsonTexts

\* the value json.loads returns for a JSON text
JsonOf(text) == Strip(text)

\* _parse_llm_response(response): the value, {} on JSONDecodeError
ParseLLMText(response) ==
    LET cleaned == CleanResponse(response)
    IN  IF IsJson(cleaned) THEN JsonOf(cleaned) ELSE << "{", "}" >>

\* whitespace a reply has around its fence and around its payload
Paddings == { << >>, << " " >>, << "\n" >>, << " ", "\n" >> }

\* the payload inside a ```json fence or a bare ``` fence
FencedTexts(payload) ==
    { lead \o open \o before \o payload \o after \o Fence \o trail :
        lead \in Paddings, open \in { JsonFence, Fence },
        before \in Paddings, after \in Paddings, trail \in Paddings }

NotParsed == << "not parsed" >>

ParseIdle ==
    /\ ps_payload = << >>
    /\ ps_response = << >>
    /\ ps_plain = << >>
    /\ ps_fenced = << >>

ParseInit ==
    /\ ps_payload \in JsonTexts \cup NonJsonTexts
    /\ ps_response \in FencedTexts(ps_payload)
    /\ ps_plain = NotParsed
    /\ ps_fenced = NotParsed

ParsePlain ==
    /\ ps_plain = NotParsed
    /\ ps_plain' = ParseLLMText(ps_payload)
    /\ UNCHANGED << ps_payload, ps_response, ps_fenced >>
    /\ UNCHANGED notParseVars

ParseFenced ==
    /\ ps_fenced = NotParsed
    /\ ps_fenced' = ParseLLMText(ps_response)
    /\ UNCHANGED << ps_payload, ps_response, ps_plain >>
    /\ UNCHANGED notParseVars

ParseNext == ParsePlain \/ ParseFenced

(***************************************************************************)
(* SelfCorrectionAgent.validate_all_categories: validate_and_correct for   *)
(* each item of `extractions` in turn, on the one agent and pipeline.      *)
(***************************************************************************)
\* extractions[category] = extraction
BatchItem(cat, extraction) == [ category |-> cat, extraction |-> extraction ]

\* the categories of a batch
BatchCategories == { "definitions", "eligibility" }

\* the extraction results of a batch: nothing found, a full list with five
\* sources, and data that is a JSON number
BatchExtractions(cat) ==
    { Extraction(EmptyObject, 0, MsgNoInfo),
      Extraction(ListObject(ExpectedField(cat), 4), 5, MsgSuccess),
      Extraction(JsonValue("number", TRUE, "none", FALSE, 0), 1,
                 MsgSuccess) }

BatchItems ==
    UNION { { BatchItem(c, e) : e \in BatchExtractions(c) } :
              c \in BatchCategories }

\* a dictionary holds each key once
BatchInputs ==
    { items \in UNION { [ 1..n -> BatchItems ] : n \in 0..MaxBatch } :
        \A i, j \in 1..Len(items) :
           items[i].category = items[j].category => i = j }

BatchIdle ==
    /\ va_extractions = << >>
    /\ va_pc = "idle"
    /\ va_next = 0
    /\ va_validated = << >>

\* the agent is constructed and validate_all_categories(extractions) has
\* run lines 102-103
BatchInit ==
    /\ va_extractions \in BatchInputs
    /\ va_pc = "running"
    /\ va_next = 1
    /\ va_validated = << >>
    /\ category = InvalidCategory
    /\ max_iterations \in 0..MaxBatchIterations
    /\ min_confidence = DefaultMinConfidence
    /\ built \in BOOLEAN
    /\ retrieval_k = retrieval_top_k
    /\ pc = "idle"
    /\ iteration = 0
    /\ current_extraction = NoExtraction
    /\ confidence = NoScore
    /\ result = NoResult
    /\ error = ""
    /\ scoring_calls = 0
    /\ corrections = 0
    /\ searches = 0
    /\ llm_calls = 0
    /\ search_k = 0

\* lines 105-106: the call validate_and_correct(category, extraction) for
\* the next item, up to its lines 47-50
StartCategory ==
    /\ va_pc = "running"
    /\ pc = "idle"
    /\ va_next <= Len(va_extractions)
    /\ category' = va_extractions[va_next].category
    /\ current_extraction' = va_extractions[va_next].extraction
    /\ pc' = "scoring"
    /\ iteration' = 0
    /\ UNCHANGED << max_iterations, min_confidence, built, retrieval_k,
                    confidence, result, error, scoring_calls, corrections,
                    searches, llm_calls, search_k >>
    /\ UNCHANGED batchVars
    /\ UNCHANGED notBatchVars

\* line 106: validated[category] = the returned result; the locals of the
\* call are gone
CollectResult ==
    /\ va_pc = "running"
    /\ pc = "returned"
    /\ va_validated' = Append(va_validated, CategoryResult(category, result))
    /\ va_next' = va_next + 1
    /\ pc' = "idle"
    /\ category' = InvalidCategory
    /\ iteration' = 0
    /\ current_extraction' = NoExtraction
    /\ confidence' = NoScore
    /\ result' = NoResult
    /\ scoring_calls' = 0
    /\ corrections' = 0
    /\ searches' = 0
    /\ llm_calls' = 0
    /\ search_k' = 0
    /\ UNCHANGED << max_iterations, min_confidence, built, retrieval_k,
                    error, va_extractions, va_pc >>
    /\ UNCHANGED notBatchVars

\* an exception of validate_and_correct leaves validate_all_categories
PropagateError ==
    /\ va_pc = "running"
    /\ pc = "raised"
    /\ va_pc' = "raised"
    /\ UNCHANGED << va_extractions, va_next, va_validated >>
    /\ UNCHANGED loopVars
    /\ UNCHANGED notBatchVars

\* line 108: return validated
ReturnValidated ==
    /\ va_pc = "running"
    /\ pc = "idle"
    /\ va_next > Len(va_extractions)
    /\ va_pc' = "returned"
    /\ UNCHANGED << va_extractions, va_next, va_validated >>
    /\ UNCHANGED loopVars
    /\ UNCHANGED notBatchVars

BatchNext ==
    \/ StartCategory
    \/ CollectResult
    \/ PropagateError
    \/ ReturnValidated
    \/ LoopNext

(***************************************************************************)
(* The API's registry of vector stores (app/api/endpoints.py).  An index   *)
(* is named by the number of the build that made it.                       *)
(***************************************************************************)
\* the document names of the requests
DocumentNames == { "act", "bill" }

\* the endpoints that resolve a document name through _get_vector_store
QueryEndpoints == { "summaries", "sections", "rule_checks" }

ApiResponse(endpoint, name, status, index) ==
    [ endpoint |-> endpoint, name |-> name, status |-> status,
      index |-> index ]

ApiIdle ==
    /\ api_vector_stores = [ n \in DocumentNames |-> 0 ]
    /\ api_disk = [ n \in DocumentNames |-> 0 ]
    /\ api_builds = 0
    /\ api_response = ApiResponse("none", "", 0, 0)

\* the server has started: the registry is empty, nothing is saved
ApiInit == ApiIdle

\* _get_vector_store(document_name): the registry after the call, the
\* status (200 for a returned store, 404, or 500 for a load that raises)
\* and the build the returned store holds
GetVectorStore(registry, disk, document_name, load_ok) ==
    IF registry[document_name] # 0
    THEN [ registry |-> registry, status |-> 200,
           index |-> registry[document_name] ]
    ELSE IF disk[document_name] # 0
    THEN IF load_ok
         THEN [ registry |->
                  [ registry EXCEPT ![document_name] = disk[document_name] ],
                status |-> 200, index |-> disk[document_name] ]
         ELSE [ registry |-> registry, status |-> 500, index |-> 0 ]
    ELSE [ registry |-> registry, status |-> 404, index |-> 0 ]

\* POST /build_index: preprocessing or build_index raises (500, nothing
\* saved), or the index is built, saved and registered
BuildVectorIndex ==
    /\ api_builds < MaxBuilds
    /\ \E name \in DocumentNames, build_ok \in BOOLEAN :
         IF build_ok
         THEN /\ api_builds' = api_builds + 1
              /\ api_disk' = [ api_disk EXCEPT ![name] = api_builds + 1 ]
              /\ api_vector_stores' =
                   [ api_vector_stores EXCEPT ![name] = api_builds + 1 ]
              /\ api_response' =
                   ApiResponse("build_index", name, 200, api_builds + 1)
         ELSE /\ api_response' = ApiResponse("build_index", name, 500, 0)
              /\ UNCHANGED << api_vector_stores, api_disk, api_builds >>
    /\ UNCHANGED notApiVars

\* POST /full_report: the extraction or the build raises (500, nothing
\* saved), or the index is built and saved (lines 262-264) and the report
\* is made or a later step raises; the registry is not written
GenerateFullReport ==
    /\ api_builds < MaxBuilds
    /\ \E name \in DocumentNames, build_ok \in BOOLEAN, report_ok \in BOOLEAN :
         IF build_ok
         THEN /\ api_builds' = api_builds + 1
              /\ api_disk' = [ api_disk EXCEPT ![name] = api_builds + 1 ]
              /\ api_response' =
                   ApiResponse("full_report", name,
                               IF report_ok THEN 200 ELSE 500,
                               api_builds + 1)
              /\ UNCHANGED api_vector_stores
         ELSE /\ api_response' = ApiResponse("full_report", name, 500, 0)
              /\ UNCHANGED << api_vector_stores, api_disk, api_builds >>
    /\ UNCHANGED notApiVars

\* a request that resolves its document name and runs a pipeline step on the
\* store: 404 or 500 from the resolution, else 200 or the step's 500
Query(endpoint) ==
    /\ \E name \in DocumentNames, load_ok \in BOOLEAN, step_ok \in BOOLEAN :
         LET got == GetVectorStore(api_vector_stores, api_disk, name, load_ok)
         IN  /\ api_vector_stores' = got.registry
             /\ api_response' =
                  ApiResponse(endpoint, name,
                              IF got.status = 200 /\ ~step_ok THEN 500
                              ELSE got.status,
                              got.index)
    /\ UNCHANGED << api_disk, api_builds >>
    /\ UNCHANGED notApiVars

\* POST /summaries
GenerateSummary == Query("summaries")

\* POST /sections
ExtractSections == Query("sections")

\* POST /rule_checks
CheckRules == Query("rule_checks")

ApiNext ==
    \/ BuildVectorIndex
    \/ GenerateFullReport
    \/ GenerateSummary
    \/ ExtractSections
    \/ CheckRules

\* the components added to the first four, at rest
LaterIdle ==
    /\ SummaryIdle
    /\ ExtractIdle
    /\ AllIdle
    /\ StoreIdle
    /\ ParseIdle
    /\ ApiIdle

\* the first four components, at rest
FirstIdle ==
    /\ LoopIdle
    /\ ScorerIdle
    /\ BlendIdle
    /\ RuleIdle
    /\ BatchIdle

(***************************************************************************)
(* Specifications.                                                         *)
(***************************************************************************)
\* one call of validate_and_correct
Init == LoopInit /\ ScorerIdle /\ BlendIdle /\ RuleIdle /\ LaterIdle /\ BatchIdle

Next == LoopNext

Spec == Init /\ [][Next]_vars

\* one call of validate_and_correct at any configured retrieval width
InitCorrection ==
    CorrectionInit /\ ScorerIdle /\ BlendIdle /\ RuleIdle /\ LaterIdle /\ BatchIdle

SpecCorrection == InitCorrection /\ [][LoopNext]_vars

\* the scorer applied to one extraction result
InitScorer ==
    LoopIdle /\ ScorerInit /\ BlendIdle /\ RuleIdle /\ LaterIdle /\ BatchIdle

SpecScorer == InitScorer /\ [][ScoreExtraction]_vars

\* the scorer's blend applied to one completeness
InitBlend ==
    LoopIdle /\ ScorerIdle /\ BlendInit /\ RuleIdle /\ LaterIdle /\ BatchIdle

SpecBlend == InitBlend /\ [][ScoreGiven]_vars

\* one call of check_all_rules
InitRules ==
    LoopIdle /\ ScorerIdle /\ BlendIdle /\ RuleInit /\ LaterIdle /\ BatchIdle

SpecRules == InitRules /\ [][RuleNext]_vars

\* the two compliance summaries of one list of rule results
InitSummary ==
    /\ FirstIdle
    /\ SummaryInit /\ ExtractIdle /\ AllIdle /\ StoreIdle /\ ParseIdle /\ ApiIdle

SpecSummary == InitSummary /\ [][SummaryNext]_vars

\* one call of extract_category
InitExtract ==
    /\ FirstIdle
    /\ SummaryIdle /\ ExtractInit /\ AllIdle /\ StoreIdle /\ ParseIdle /\ ApiIdle

SpecExtract == InitExtract /\ [][Extract]_vars

\* one call of extract_all_categories
InitAll ==
    /\ FirstIdle
    /\ SummaryIdle /\ ExtractIdle /\ AllInit /\ StoreIdle /\ ParseIdle /\ ApiIdle

SpecAll == InitAll /\ [][AllNext]_vars

\* the calls of one vector store manager, in any order
InitStore ==
    /\ FirstIdle
    /\ SummaryIdle /\ ExtractIdle /\ AllIdle /\ StoreInit /\ ParseIdle /\ ApiIdle

SpecStore == InitStore /\ [][StoreNext]_vars

\* the parser applied to a text and to the text inside a fence
InitParse ==
    /\ FirstIdle
    /\ SummaryIdle /\ ExtractIdle /\ AllIdle /\ StoreIdle /\ ParseInit /\ ApiIdle

SpecParse == InitParse /\ [][ParseNext]_vars

\* the requests of one server process, in any order
InitApi ==
    /\ FirstIdle
    /\ SummaryIdle /\ ExtractIdle /\ AllIdle /\ StoreIdle /\ ParseIdle
    /\ ApiInit

SpecApi == InitApi /\ [][ApiNext]_vars

\* one call of validate_all_categories
InitBatch ==
    BatchInit /\ ScorerIdle /\ BlendIdle /\ RuleIdle /\ LaterIdle

SpecBatch == InitBatch /\ [][BatchNext]_vars

(***************************************************************************)
(* Properties of the scorer.                                               *)
(***************************************************************************)
Scored == sc_confidence.kind = "score"

\* the list-valued field that the output schema of each category requires
\* (definitions: terms, eligibility: criteria, payments: payment_types,
\* penalties: penalties, obligations: obligations, record_keeping:
\* requirements)
SchemaListField ==
    [ c \in CatalogSet |->
        CASE c = "definitions"    -> "terms"
          [] c = "eligibility"    -> "criteria"
          [] c = "payments"       -> "payment_types"
          [] c = "penalties"      -> "penalties"
          [] c = "obligations"    -> "obligations"
          [] c = "record_keeping" -> "requirements" ]

\* C3: for every extraction result that is scored, needs_correction is true
\* if and only if overall < min_confidence_threshold x 100, or completeness
\* < 50, or evidence_quality < 30, all three comparisons strict.
C3_NeedsCorrectionIff ==
    Scored =>
      ( sc_confidence.needs_correction <=>
          \/ sc_confidence.overall < sc_min_confidence * 100
          \/ sc_confidence.completeness < 5000
          \/ sc_confidence.evidence_quality < 3000 )

\* an overall exactly at the threshold that does not trigger correction
C3_Witness ==
    /\ Scored
    /\ sc_confidence.overall = sc_min_confidence * 100
    /\ sc_confidence.completeness >= 5000
    /\ sc_confidence.evidence_quality >= 3000
    /\ ~sc_confidence.needs_correction

C5_ScoresInRange ==
    /\ sc_confidence.kind # "ValidationError"
    /\ Scored =>
         /\ sc_confidence.evidence_quality =
              ( IF 20 * sc_extraction.sources < 100
                THEN 2000 * sc_extraction.sources ELSE 10000 )
         /\ (sc_extraction.sources = 0) => (sc_confidence.evidence_quality = 0)
         /\ (sc_extraction.sources >= 5) =>
              (sc_confidence.evidence_quality = 10000)
         /\ 100 * sc_confidence.overall =
              70 * sc_confidence.completeness
                + 30 * sc_confidence.evidence_quality
         /\ \A x \in { sc_confidence.overall, sc_confidence.completeness,
                       sc_confidence.evidence_quality } :
               0 <= x /\ x <= 10000

\* more than five sources and a full list: every score is at its maximum
C5_Witness ==
    /\ Scored
    /\ sc_extraction.sources > 5
    /\ sc_confidence.evidence_quality = 10000
    /\ sc_confidence.completeness = 10000
    /\ sc_confidence.overall = 10000

\* C6: for each catalog category the completeness of empty data is 0, and
\* the completeness of data whose required field is a list of n items is
\* less than that of the same data with n + 1 items while n < 4, and equal
\* to it from n = 4 on.
C6_CompletenessMonotone ==
    (Scored /\ sc_category \in CatalogSet) =>
      /\ ~sc_extraction.data.truthy => sc_confidence.completeness = 0
      /\ \A n \in 0..(MaxItems - 1) :
           sc_extraction.data = ListObject(SchemaListField[sc_category], n) =>
             LET more == AssessCompleteness(sc_category,
                             ListObject(SchemaListField[sc_category], n + 1))
             IN  /\ sc_confidence.completeness <= more
                 /\ n < 4 => sc_confidence.completeness < more
                 /\ n >= 4 => sc_confidence.completeness = more

\* a list of four items, where the richness reaches its cap
C6_Witness ==
    /\ Scored
    /\ sc_category \in CatalogSet
    /\ sc_extraction.data = ListObject(SchemaListField[sc_category], 4)
    /\ sc_confidence.completeness = 10000

\* C7: for a catalog category whose required field is a non-empty list of n
\* items, completeness = 0.6 x 100 + 0.4 x min(100, 25 x n); `definitions`
\* with one term and one source scores completeness 70, evidence_quality 20,
\* overall 55 and needs_correction at threshold 0.7.
C7_CompletenessOfList ==
    (Scored /\ sc_category \in CatalogSet) =>
      /\ \A n \in 1..MaxItems :
           sc_extraction.data = ListObject(SchemaListField[sc_category], n) =>
             sc_confidence.completeness =
               6000 + 40 * (IF 25 * n < 100 THEN 25 * n ELSE 100)
      /\ ( /\ sc_category = "definitions"
           /\ sc_extraction.data = ListObject("terms", 1)
           /\ sc_extraction.sources = 1
           /\ sc_min_confidence = 70 )
         => /\ sc_confidence.completeness = 7000
            /\ sc_confidence.evidence_quality = 2000
            /\ sc_confidence.overall = 5500
            /\ sc_confidence.needs_correction

\* the end-to-end scenario: one term, one source
C7_Witness ==
    /\ Scored
    /\ sc_category = "definitions"
    /\ sc_extraction.data = ListObject("terms", 1)
    /\ sc_extraction.sources = 1
    /\ sc_min_confidence = 70
    /\ sc_confidence.overall = 5500

\* C29: for every reply of the language model that parses as JSON,
\* whatever its top-level shape, scoring the extraction made of it returns
\* a ConfidenceScore and does not raise.
C29_ScoringNeverRaises ==
    sc_confidence.kind \in {"none", "score"}

(***************************************************************************)
(* Properties of the correction loop.                                      *)
(***************************************************************************)
\* C1: for every catalog category, every initial extraction result and every
\* outcome of each re-extraction on a built index, validate_and_correct
\* returns a result (it does not raise) after at most max_iterations + 1
\* scoring calls and at most max_iterations correction attempts, and the
\* return that follows the last permitted correction carries validated =
\* false and the message of the exhausted budget.
C1_ReturnsWithinBudget ==
    (category \in CatalogSet /\ built) =>
      /\ pc # "raised"
      /\ scoring_calls <= max_iterations + 1
      /\ corrections <= max_iterations
      /\ (pc = "returned" /\ corrections = max_iterations) =>
           /\ ~result.validated
           /\ result.message = MsgMaxIterations

\* C2: no returned result carries confidence.needs_correction = false
\* together with validated = false: a scoring that finds no correction
\* needed, the one after the last permitted correction included, returns
\* the result as validated.
C2_SatisfiedIsValidated ==
    pc = "returned" =>
      (~result.confidence.needs_correction => result.validated)

\* C21: in every result validate_and_correct returns, validated or not,
\* the attached confidence is the score of the data and sources of that
\* same result, not the score of an earlier iteration's result.
C21_ConfidenceOfReturnedResult ==
    pc = "returned" =>
      result.confidence =
        CalculateConfidence(category,
            [ data |-> result.data, sources |-> result.sources,
              message |-> result.message ],
            min_confidence)

\* an exhausted run whose last correction replaced an empty result by a full
\* list with five sources
C21_Witness ==
    /\ pc = "returned"
    /\ ~result.validated
    /\ corrections = 2
    /\ confidence.overall = 10000
    /\ result.confidence.overall = 10000
    /\ result.data.n = 4
    /\ result.sources = 5

\* C22: a correction attempt picks its strategy from the current score only:
\* completeness < 30 re-extracts at retrieval width min(k + 3, 10); otherwise
\* evidence_quality < 50 re-extracts at the unchanged width k; otherwise the
\* current result is returned unchanged with no retrieval and no
\* language-model call.  A re-extraction shows as one more search at that
\* width, or for a category outside the catalog as the ValueError raised
\* with the pipeline at that width.
C22_StrategyFromScore ==
    [][ pc = "correcting" =>
        LET ReExtractedAt(w) ==
                IF searches' = searches + 1
                THEN search_k' = w
                ELSE pc' = "raised" /\ retrieval_k' = w
        IN  IF confidence.completeness < 3000
            THEN ReExtractedAt(IF retrieval_k + 3 < 10
                               THEN retrieval_k + 3 ELSE 10)
            ELSE IF confidence.evidence_quality < 5000
            THEN ReExtractedAt(retrieval_k)
            ELSE /\ current_extraction' = current_extraction
                 /\ searches' = searches
                 /\ llm_calls' = llm_calls
                 /\ pc' = "scoring" ]_vars

\* an empty result re-extracted at the capped width 10 from a configured
\* width of 8
C22_Witness ==
    /\ pc = "scoring"
    /\ corrections = 1
    /\ confidence.completeness < 3000
    /\ retrieval_k = 8
    /\ searches = 1
    /\ search_k = 10
    /\ llm_calls = 1

\* C23: the widening is a one-shot perturbation: when a correction attempt
\* ends, with a result or with an exception of the re-extraction, the
\* pipeline's retrieval_k is what it was before the attempt.
C23_WidthRestored ==
    [][ pc = "correcting" => retrieval_k' = retrieval_k ]_vars

\* C25: in the low-completeness branch the width used for the re-extraction
\* is at least the configured retrieval_k and at most 10, for every
\* configured retrieval_k >= 1.
C25_WidenedWithinRange ==
    ( /\ pc = "scoring"
      /\ corrections = 1
      /\ confidence.completeness < 3000
      /\ searches = 1 )
    => /\ search_k >= retrieval_k
       /\ search_k <= 10

\* C24: the return-unchanged fallback of the correction strategy is
\* unreachable: whenever a score with needs_correction = true (threshold
\* 0.7) sends the loop to a correction attempt, completeness < 30 or
\* evidence_quality < 50, so every attempt re-extracts.
C24_FallbackUnreachable ==
    pc = "correcting" =>
      \/ confidence.completeness < 3000
      \/ confidence.evidence_quality < 5000

\* C26: the loop never degrades an extraction: the overall confidence of
\* the returned result is at least that of the initial result.  With a
\* budget of one correction the score held when the run returns after a
\* correction is the initial result's.
C26_NeverDegrades ==
    [][ ( /\ max_iterations = 1
          /\ pc = "scoring"
          /\ pc' = "returned"
          /\ confidence.kind = "score" )
        => result'.confidence.overall >= confidence.overall ]_vars

\* C27: every result returned with validated = true has overall >=
\* min_confidence_threshold x 100, completeness >= 50 and evidence_quality
\* >= 30.
C27_ValidatedMeetsThresholds ==
    (pc = "returned" /\ result.validated) =>
      /\ result.confidence.overall >= min_confidence * 100
      /\ result.confidence.completeness >= 5000
      /\ result.confidence.evidence_quality >= 3000

\* a result validated at the second scoring with evidence just above its
\* threshold
C27_Witness ==
    /\ pc = "returned"
    /\ result.validated
    /\ result.iterations = 2
    /\ result.confidence.completeness = 10000
    /\ result.confidence.evidence_quality = 4000

\* C28: the 'iterations' of a returned result is the number of scoring
\* calls of the run, on the validated and on the exhausted return path.
C28_IterationsCountScorings ==
    pc = "returned" => result.iterations = scoring_calls

(***************************************************************************)
(* Properties of the rule engine.                                          *)
(***************************************************************************)
\* the result of the last _check_rule that returned one
LastRuleResult == rule_results[Len(rule_results)]

\* the last _check_rule returned a result
LastRuleReturned == rule_pc # "raised" /\ Len(rule_results) > 0

\* C8: when the search for a rule's query returns no hit, _check_rule
\* returns status fail, evidence 'No relevant content found' and confidence
\* 0, and the language model is not invoked for that rule.
C8_NoHitsFailsWithoutLLM ==
    rule_last.no_hits =>
      /\ LastRuleReturned
      /\ LastRuleResult =
           RuleResult(RULES[Len(rule_results)], "fail",
                      "No relevant content found", 0)
      /\ ~rule_last.llm_called
      /\ rule_last.reply = "none"

\* a rule whose search found nothing, after a rule that asked the model
C8_Witness ==
    /\ rule_last.no_hits
    /\ Len(rule_results) > 1
    /\ rule_results[Len(rule_results) - 1].evidence = EvQuote
    /\ LastRuleResult.evidence = "No relevant content found"

\* an evidence text that describes a failure of the validation
DescribesFailure(evidence) == evidence = EvValidationError

\* C9: for a rule with at least one hit, if the language-model call raises
\* or its reply is not parseable JSON, no exception leaves _check_rule and
\* the rule's result has status fail, confidence 0 and an evidence text that
\* describes the failure.
C9_FailureDescribed ==
    rule_last.reply \in {"raise", "nonjson"} =>
      /\ LastRuleReturned
      /\ LastRuleResult.status = "fail"
      /\ LastRuleResult.confidence = 0
      /\ DescribesFailure(LastRuleResult.evidence)

\* C11: every RuleResult the rule engine produces has a status that is pass
\* or fail and a confidence in [0, 100], whatever the language model
\* replies.
C11_StatusAndConfidence ==
    \A i \in 1..Len(rule_results) :
       /\ rule_results[i].status \in {"pass", "fail"}
       /\ 0 <= rule_results[i].confidence
       /\ rule_results[i].confidence <= 10000

\* C10: on a built index check_all_rules returns exactly six results, one
\* per catalog rule in catalog order, whatever the language model does for
\* any rule: no reply makes the call raise.
C10_SixResultsAlways ==
    rule_built =>
      /\ rule_pc # "raised"
      /\ rule_pc = "returned" =>
           /\ Len(rule_results) = 6
           /\ \A i \in 1..6 : rule_results[i].rule = RULES[i]

(***************************************************************************)
(* Properties of the compliance summaries.                                 *)
(***************************************************************************)
\* the number of passed rules of the results being summarised
PassedCount ==
    Cardinality({ i \in 1..Len(sum_results) : sum_results[i].status = "pass" })

\* C12: for each of the 64 combinations of pass and fail of the six rules,
\* the overall status is compliant if and only if at least 4 rules passed,
\* pass_rate = passed / total x 100, passed + failed = total, and the rule
\* checker's summary and the report's rule summary give the same status.
C12_CompliantIffFourPass ==
    /\ \A sm \in { sum_summary, sum_report } :
         sm.kind # "none" =>
           /\ sm.total_rules = 6
           /\ sm.passed = PassedCount
           /\ sm.status = "compliant" <=> PassedCount >= 4
           /\ sm.status \in {"compliant", "non-compliant"}
           /\ sm.pass_rate.num * sm.total_rules
                = sm.passed * 100 * sm.pass_rate.den
           /\ sm.passed + sm.failed = sm.total_rules
    /\ (sum_summary.kind # "none" /\ sum_report.kind # "none") =>
         sum_summary.status = sum_report.status

\* exactly four passed rules, summarised by both as compliant
C12_Witness ==
    /\ PassedCount = 4
    /\ sum_summary.kind = "summary"
    /\ sum_report.kind = "report"
    /\ sum_summary.status = "compliant"
    /\ sum_report.status = "compliant"

(***************************************************************************)
(* Properties of the extraction engine.                                    *)
(***************************************************************************)
\* extract_category ran on a built index with a catalog category
Extracted ==
    /\ ex_outcome.kind # "none"
    /\ ex_category \in CatalogSet
    /\ ex_built

\* C13: for every catalog category, when retrieval returns no chunk,
\* extract_category returns (it does not raise) empty data, empty sources
\* and the message 'No relevant information found', and the language model
\* is not invoked.
C13_NoChunksNoInformation ==
    (Extracted /\ ex_docs = 0) =>
      /\ ex_outcome.kind = "result"
      /\ ex_outcome.extraction.data = EmptyObject
      /\ ex_outcome.extraction.sources = 0
      /\ ex_outcome.extraction.message = "No relevant information found"
      /\ ~ex_outcome.llm_called
      /\ ex_reply.kind = "none"

\* an empty search result for `payments` at the widened retrieval width
C13_Witness ==
    /\ Extracted
    /\ ex_category = "payments"
    /\ ex_retrieval_k > retrieval_top_k
    /\ ex_docs = 0
    /\ ex_outcome.searched
    /\ ex_outcome.extraction.message = "No relevant information found"

\* C14: for every catalog category with at least one retrieved chunk, a
\* language-model call that raises and a reply that is not valid JSON each
\* make extract_category return, without raising, empty data and an
\* explanatory message that differs from the success message.
C14_FailureExplained ==
    (Extracted /\ ex_docs >= 1 /\ ex_reply.kind \in {"raise", "nonjson"}) =>
      /\ ex_outcome.kind = "result"
      /\ ex_outcome.extraction.data = EmptyObject
      /\ ex_outcome.extraction.message # "Successfully extracted"
      /\ ex_outcome.extraction.message # ""

\* the result the run holds for its i-th category, as extract_category
\* gives it for that category's own chunks and reply
OwnResult(i) ==
    LET docs == all_inputs[i].docs
        reply == all_inputs[i].reply
    IN  IF docs = 0
        THEN Extraction(EmptyObject, 0, "No relevant information found")
        ELSE IF reply.kind = "raise"
        THEN Extraction(EmptyObject, 0, "Extraction failed")
        ELSE IF reply.kind = "nonjson"
        THEN Extraction(EmptyObject, docs, "Successfully extracted")
        ELSE Extraction(reply.value, docs, "Successfully extracted")

\* C15: on a built index extract_all_categories returns a mapping with
\* exactly the six catalog categories in catalog order, and each category's
\* result is what its own chunks and reply give, whatever failed for the
\* other categories.
C15_SixCategoriesIndependent ==
    all_built =>
      /\ all_pc # "raised"
      /\ all_pc = "returned" => Len(all_results) = 6
      /\ \A i \in 1..Len(all_results) :
           /\ all_results[i].category =
                << "definitions", "eligibility", "payments",
                   "penalties", "obligations", "record_keeping" >>[i]
           /\ all_results[i].result = OwnResult(i)

\* the language model fails for `payments` and for no other category
C15_Witness ==
    /\ all_pc = "returned"
    /\ all_inputs[3].reply.kind = "raise"
    /\ all_results[3].result.message = "Extraction failed"
    /\ \A i \in {1, 2, 4, 5, 6} :
         /\ all_inputs[i].reply.kind = "json"
         /\ all_results[i].result.data.n = 2

\* C16: a category name outside the catalog is rejected with an error
\* before any retrieval or language-model call, by extract_category and by
\* validate_and_correct with any initial result.
C16_InvalidCategoryRejected ==
    /\ (ex_outcome.kind # "none" /\ ex_category \notin CatalogSet) =>
         /\ ex_outcome.kind = "ValueError"
         /\ ~ex_outcome.searched
         /\ ~ex_outcome.llm_called
    /\ (pc # "idle" /\ category \notin CatalogSet) =>
         /\ pc # "returned"
         /\ searches = 0
         /\ llm_calls = 0

(***************************************************************************)
(* Properties of the vector store manager.                                 *)
(***************************************************************************)
\* the calls C17 names: build_index without chunks, and search,
\* get_all_documents or save_index on a manager that holds no index
C17_Case(call) ==
    \/ call.op = "build" /\ call.chunks = 0
    \/ call.op \in {"search", "get_all", "save"} /\ ~call.had_index

\* each of those calls fails
C17_Fails == C17_Case(vs_last) => vs_last.kind = "ValueError"

\* a step that is one of those calls changes neither index nor name
C17_Frame ==
    (vs_last' # vs_last /\ C17_Case(vs_last')) =>
      /\ vs_index' = vs_index
      /\ vs_document_name' = vs_document_name

\* C17: build_index on an empty chunk list fails with an error, and search,
\* get_all_documents and save_index fail with an error on a manager that
\* has neither built nor loaded an index; each of these failures leaves the
\* manager's index and document name unchanged.
C17_FailuresLeaveManager == []C17_Fails /\ [][C17_Frame]_vars

\* build_index without chunks failed on a manager that holds an index
C17_Witness ==
    /\ vs_last.op = "build"
    /\ vs_last.chunks = 0
    /\ vs_last.kind = "ValueError"
    /\ vs_last.had_index
    /\ vs_index.doc = "act_b"
    /\ vs_document_name = "act_b"

\* C18: after any build_index call that fails, on a fresh manager or on one
\* that held an index, the manager has no usable index (a following search
\* fails as not built) and its document name names no document whose index
\* was not built.
C18_FailedBuildLeavesNoIndex ==
    (vs_last.op = "build" /\ vs_last.kind # "ok") =>
      /\ vs_index = [ doc |-> "none", size |-> 0 ]
      /\ vs_document_name = "None"

(***************************************************************************)
(* Properties of the reply parser.                                         *)
(***************************************************************************)
\* C19: for every JSON payload, _parse_llm_response applied to the payload
\* inside a ```json fence, or inside a bare ``` fence, with or without
\* whitespace around fence and payload, returns the same value as applied
\* to the payload itself.
C19_FencedParsesAsPlain ==
    ( /\ ps_payload \in JsonTexts
      /\ ps_plain # << "not parsed" >>
      /\ ps_fenced # << "not parsed" >> )
    => ps_fenced = ps_plain

\* the object {"s":5} inside a ```json fence on lines of its own
C19_Witness ==
    /\ ps_payload = << "{", "\"", "s", "\"", ":", "5", "}" >>
    /\ ps_response =
         << "'", "'", "'", "j", "s", "o", "n", "\n" >> \o ps_payload
           \o << "\n", "'", "'", "'" >>
    /\ ps_plain = ps_payload
    /\ ps_fenced = ps_payload

(***************************************************************************)
(* Properties of validate_all_categories.                                  *)
(***************************************************************************)
\* C20: validate_all_categories returns a mapping with exactly the
\* categories of its input, and every category is validated as on a fresh
\* agent: it starts at the configured retrieval width whatever correction
\* or exhaustion came before it, and no earlier category keeps it from
\* being validated.
C20_CategoriesIndependent ==
    va_pc # "idle" =>
      /\ va_pc # "raised"
      /\ pc # "raised"
      /\ (pc = "scoring" /\ scoring_calls = 0) => retrieval_k = 5
      /\ va_pc = "returned" =>
           /\ Len(va_validated) = Len(va_extractions)
           /\ \A i \in 1..Len(va_validated) :
                va_validated[i].category = va_extractions[i].category

(***************************************************************************)
(* Properties of the API's registry.                                       *)
(***************************************************************************)
\* C30: after any sequence of /build_index, /full_report, /summaries,
\* /sections and /rule_checks requests, the index _get_vector_store resolves
\* for a document name is the one most recently built and saved under that
\* name, whichever endpoint built it, and a name with no registry entry and
\* no saved index yields a 404.
C30_ResolvesLatestBuild ==
    api_response.endpoint \in QueryEndpoints =>
      IF api_disk[api_response.name] = 0
      THEN api_response.status = 404
      ELSE /\ api_response.status # 404
           /\ api_response.index # 0 =>
                api_response.index = api_disk[api_response.name]

====
